---- MODULE Spec2Model ----
(***************************************************************************)
(* The connection coordinator of the extension (src/lib/connectionManager  *)
(* .ts, the ConnectionManager class) together with the host events that    *)
(* drive it: timers, port disconnects, inbound messages, incoming          *)
(* connections.  One coordinator per process; its role (context) is        *)
(* mutable.                                                                *)
(***************************************************************************)
EXTENDS Integers, Sequences, FiniteSets, Bags, TLC

\* ------------------------------------------------------------------ bounds
MaxChains == 2      \* pending timers plus open outbound ports of the process
MaxAccepted == 2    \* inbound connections the host holds at one time
MaxListeners == 2   \* accept handlers registered on chrome.runtime.onConnect
MaxSubs == 2        \* subscribe calls
MaxMsgs == 1        \* messages the history remembers as not written

\* ------------------------------------------------------- program constants
RECONNECT_DELAY == 1000
INITIAL_CONNECTION_DELAY == 100

Contexts == {"content", "background", "sidepanel"}
ClientContexts == {"content", "sidepanel"}
MessageTypes == {"TAB_ACTIVATED", "TEST_MESSAGE"}
Wildcard == "*"
SubscribeTypes == MessageTypes \cup {Wildcard}
HandlerFns == {"h1", "h2"}

PortIds == 1..(MaxChains + 1)
AcceptedIds == 1..MaxAccepted
PortNames == {"content-1", "sidepanel-1"}
NoPort == 0

\* chrome.runtime.lastError values: undefined, or an object with a message
\* (a sequence of words)
NoError == [isObject |-> FALSE, hasMessage |-> FALSE, message |-> <<>>]
BareError == [isObject |-> TRUE, hasMessage |-> FALSE, message |-> <<>>]
OtherError == [isObject |-> TRUE, hasMessage |-> TRUE,
               message |-> <<"Could", "not", "establish", "connection", ".">>]
InvalidatedError == [isObject |-> TRUE, hasMessage |-> TRUE,
                     message |-> <<"Extension", "context", "invalidated", ".">>]
LastErrors == {NoError, BareError, OtherError, InvalidatedError}
ThrownErrors == {OtherError, InvalidatedError}
Needle == <<"Extension", "context", "invalidated">>

VARIABLES
    instance,          \* ConnectionManager.instance exists
    context,           \* this.context
    port,              \* this.port (NoPort = undefined); may name a dead port
    ports,             \* this.ports: name -> accepted connection (hub table)
    messageHandlers,   \* this.messageHandlers: type -> sequence of registrations
    isSettingUp,
    isInvalidated,
    timers,            \* pending setTimeout(connectToBackground, d) calls
    openPorts,         \* ports this process opened that have not disconnected
    onConnect,         \* number of listeners on chrome.runtime.onConnect
    accepted,          \* inbound connections: live, name, listener pairs
    issued,            \* unsubscribe capabilities handed out
    used,              \* unsubscribe capabilities that have been invoked
    dropped,           \* ids of messages given to sendMessage while this.port was undefined
    classified,        \* handleDisconnect has seen host invalidation
    ev,                \* the last operation and what it did
    app                \* the side panel's App: mounted, and its connected state

coordinatorVars == <<context, port, ports, messageHandlers, isSettingUp, isInvalidated>>
hostVars == <<timers, openPorts, onConnect, accepted>>
historyVars == <<issued, used, dropped, classified, ev>>
vars == <<instance, coordinatorVars, hostVars, historyVars, app>>

\* ---------------------------------------------------------------- helpers
Min(a, b) == IF a < b THEN a ELSE b
Max(a, b) == IF a > b THEN a ELSE b

\* String.prototype.includes on word sequences
Includes(hay, needle) ==
    \E i \in 0..(Len(hay) - Len(needle)) :
        SubSeq(hay, i + 1, i + Len(needle)) = needle

RemoveAt(seq, i) == SubSeq(seq, 1, i - 1) \o SubSeq(seq, i + 1, Len(seq))

Delay(kind) == IF kind = "initial" THEN INITIAL_CONNECTION_DELAY ELSE RECONNECT_DELAY
TickMs == RECONNECT_DELAY \div 2

EmptyLog ==
    [scheduled |-> <<>>,                       \* timers set by this operation
     opened |-> NoPort,                        \* port opened by this operation
     invoked |-> <<>>,                         \* subscriber calls, in order
     posted |-> [a \in AcceptedIds |-> 0],     \* postMessage calls per accepted port
     wrote |-> {},                             \* outbound ports written to
     wroteIds |-> {},                          \* ids of the messages written to them
     caught |-> 0,                             \* errors caught and logged
     threw |-> FALSE]                          \* an error left the operation

\* The state an operation starts from, with an empty log.
Cur ==
    [context |-> context, port |-> port, ports |-> ports,
     messageHandlers |-> messageHandlers, isSettingUp |-> isSettingUp,
     isInvalidated |-> isInvalidated, timers |-> timers, openPorts |-> openPorts,
     onConnect |-> onConnect, accepted |-> accepted, issued |-> issued, used |-> used,
     dropped |-> dropped, classified |-> classified, app |-> app,
     log |-> EmptyLog]

\* The arguments of an operation, each kind of argument in a field of its own.
NoTimer == [kind |-> "", left |-> 0, age |-> 0]
NoCap == [type |-> "", fn |-> "", call |-> 0]
NoArgs ==
    [role |-> "", was |-> "", first |-> FALSE, timer |-> NoTimer, error |-> NoError,
     port |-> NoPort, name |-> "", type |-> "", throwers |-> {}, fn |-> "",
     cap |-> NoCap, id |-> 0]

\* The state an operation leaves, and its record.
Commit(s, op, args) ==
    /\ context' = s.context
    /\ port' = s.port
    /\ ports' = s.ports
    /\ messageHandlers' = s.messageHandlers
    /\ isSettingUp' = s.isSettingUp
    /\ isInvalidated' = s.isInvalidated
    /\ timers' = s.timers
    /\ openPorts' = s.openPorts
    /\ onConnect' = s.onConnect
    /\ accepted' = s.accepted
    /\ issued' = s.issued
    /\ used' = s.used
    /\ dropped' = s.dropped
    /\ classified' = s.classified
    /\ app' = s.app
    /\ ev' = [op |-> op, arg |-> args, log |-> s.log]

\* ------------------------------------------------------------ coordinator
setTimeout(s, kind) ==
    [s EXCEPT !.timers = @ (+) SetToBag({[kind |-> kind, left |-> Delay(kind), age |-> 0]}),
              !.log.scheduled = Append(@, kind)]

isExtensionContextInvalidated(error) ==
    IF ~error.isObject THEN FALSE
    ELSE error.hasMessage /\ Includes(error.message, Needle)

\* scheduleReconnect without its isInvalidated test
scheduleReconnect_unguarded(s) ==
    IF s.context = "background" THEN s
    ELSE setTimeout(s, "reconnect")

scheduleReconnect(s) ==
    IF s.context = "background" THEN s
    ELSE IF ~s.isInvalidated THEN setTimeout(s, "reconnect")
    ELSE s

\* handleDisconnect without its call to scheduleReconnect
handleDisconnect_noReconnect(s, error) ==
    IF isExtensionContextInvalidated(error)
    THEN [s EXCEPT !.isInvalidated = TRUE, !.classified = TRUE]
    ELSE IF s.context = "background" THEN s
    ELSE [s EXCEPT !.port = NoPort]

handleDisconnect(s, error) ==
    IF isExtensionContextInvalidated(error)
    THEN [s EXCEPT !.isInvalidated = TRUE, !.classified = TRUE]
    ELSE IF s.context = "background" THEN s
    ELSE scheduleReconnect([s EXCEPT !.port = NoPort])

\* chrome.runtime.connect returns a port the process does not hold yet
FreshPort(s) == CHOOSE p \in PortIds : p \notin s.openPorts /\ p # s.port

\* connectToBackground writing the messages sendMessage could not write to the
\* port it has just opened
connectToBackground_flush(s, outcome) ==
    IF s.context = "background" THEN s
    ELSE IF outcome = NoError
    THEN LET p == FreshPort(s)
         IN [s EXCEPT !.port = p, !.openPorts = @ \cup {p}, !.log.opened = p,
                      !.log.wrote = IF s.dropped = {} THEN @ ELSE @ \cup {p},
                      !.log.wroteIds = @ \cup s.dropped]
    ELSE scheduleReconnect([s EXCEPT !.log.caught = @ + 1])

\* connectToBackground without its test for the background context
connectToBackground_noSkip(s, outcome) ==
    IF outcome = NoError
    THEN LET p == FreshPort(s)
         IN [s EXCEPT !.port = p, !.openPorts = @ \cup {p}, !.log.opened = p]
    ELSE scheduleReconnect([s EXCEPT !.log.caught = @ + 1])

\* outcome: NoError, or the error chrome.runtime.connect throws
connectToBackground(s, outcome) ==
    IF s.context = "background" THEN s
    ELSE IF outcome = NoError
    THEN LET p == FreshPort(s)
         IN [s EXCEPT !.port = p, !.openPorts = @ \cup {p}, !.log.opened = p]
    ELSE scheduleReconnect([s EXCEPT !.log.caught = @ + 1])

setupClientConnections(s) ==
    IF s.isSettingUp THEN s
    ELSE setTimeout([s EXCEPT !.isSettingUp = TRUE], "initial")

setupBackgroundConnections(s) == [s EXCEPT !.onConnect = @ + 1]

setupConnections(s) ==
    IF s.context = "background" THEN setupBackgroundConnections(s)
    ELSE setupClientConnections(s)

\* setContext without its early return
setContext_noSkip(s, c) ==
    setupConnections([s EXCEPT !.context = c,
                               !.isSettingUp = FALSE,
                               !.isInvalidated = FALSE])

setContext(s, c) ==
    IF s.context = c THEN s
    ELSE setupConnections([s EXCEPT !.context = c,
                                    !.isSettingUp = FALSE,
                                    !.isInvalidated = FALSE])

\* this.ports.forEach(port => port !== excludePort && port.postMessage(message))
broadcast(s, excludePort) ==
    IF s.context # "background" THEN s
    ELSE LET targets == {s.ports[n] : n \in PortNames} \ {NoPort, excludePort}
             alive == {a \in targets : s.accepted[a].live}
         IN [s EXCEPT !.log.posted = [a \in AcceptedIds |->
                                        IF a \in alive THEN @[a] + 1 ELSE @[a]],
                      !.log.caught = @ + Cardinality(targets \ alive)]

\* sendMessage without its try/catch: a failed write leaves the operation
sendMessage_noCatch(s, id) ==
    IF s.context = "background" THEN broadcast(s, NoPort)
    ELSE IF s.port # NoPort
    THEN IF s.port \in s.openPorts
         THEN [s EXCEPT !.log.wrote = @ \cup {s.port}, !.log.wroteIds = @ \cup {id}]
         ELSE [s EXCEPT !.log.threw = TRUE]
    ELSE [s EXCEPT !.dropped = IF Cardinality(@) < MaxMsgs THEN @ \cup {id} ELSE @]

\* the body of the promise sendMessage returns; id is the message's nanoid
sendMessage(s, id) ==
    IF s.context = "background" THEN broadcast(s, NoPort)
    ELSE IF s.port # NoPort
    THEN IF s.port \in s.openPorts
         THEN [s EXCEPT !.log.wrote = @ \cup {s.port}, !.log.wroteIds = @ \cup {id}]
         ELSE [s EXCEPT !.log.caught = @ + 1]      \* postMessage threw, caught
    ELSE [s EXCEPT !.dropped = IF Cardinality(@) < MaxMsgs THEN @ \cup {id} ELSE @]

\* a registration is the handler function and the subscribe call that made it
subscribe(s, messageType, handler) ==
    LET reg == [fn |-> handler, call |-> Cardinality(s.issued) + 1]
    IN [s EXCEPT !.messageHandlers[messageType] = Append(@, reg),
                 !.issued = @ \cup {[type |-> messageType, fn |-> handler,
                                     call |-> reg.call]}]

\* handlers.indexOf(handler): first position holding that function, 0 if none
IndexOf(handlers, handler) ==
    IF \E i \in 1..Len(handlers) : handlers[i].fn = handler
    THEN CHOOSE i \in 1..Len(handlers) :
            /\ handlers[i].fn = handler
            /\ \A j \in 1..(i - 1) : handlers[j].fn # handler
    ELSE 0

\* the closure subscribe returns
unsubscribe(s, cap) ==
    LET handlers == s.messageHandlers[cap.type]
        index == IndexOf(handlers, cap.fn)
    IN IF index > 0
       THEN [s EXCEPT !.messageHandlers[cap.type] = RemoveAt(handlers, index)]
       ELSE s

\* handlers.forEach(handler => handler(message)); the handlers in throwers raise
handleMessage(s, type, throwers) ==
    LET handlers == s.messageHandlers[type]
        bad == {i \in 1..Len(handlers) : handlers[i].fn \in throwers}
        last == IF bad = {} THEN Len(handlers)
                ELSE CHOOSE i \in bad : \A j \in bad : i <= j
    IN [s EXCEPT !.log.invoked = @ \o SubSeq(handlers, 1, last),
                 !.log.threw = (bad # {})]

\* handlers.forEach(handler => handler(message)) when the handler function
\* actor invokes the unsubscribe closure cap each time it is called. forEach
\* visits the indices below the length the array had at the start, and skips
\* an index the array no longer has; the closure splices that same array.
RECURSIVE forEach(_, _, _, _, _, _)
forEach(s, type, k, len, actor, cap) ==
    IF k > len THEN s
    ELSE IF k > Len(s.messageHandlers[type])
    THEN forEach(s, type, k + 1, len, actor, cap)
    ELSE LET handler == s.messageHandlers[type][k]
             s1 == [s EXCEPT !.log.invoked = Append(@, handler)]
             s2 == IF handler.fn = actor
                   THEN [unsubscribe(s1, cap) EXCEPT !.used = @ \cup {cap}]
                   ELSE s1
         IN forEach(s2, type, k + 1, len, actor, cap)

\* The side panel's useEffect: setContext('sidepanel'), then initConnection up
\* to its await (sendMessage runs, its promise resolves unless it raised), then
\* subscribe('*', ...), then the continuation of the await: setConnected(true),
\* or setConnected(false) in the catch.
App_useEffect(s, id, handler) ==
    LET s1 == sendMessage(setContext(s, "sidepanel"), id)
        s2 == subscribe(s1, Wildcard, handler)
    IN [s2 EXCEPT !.app = [mounted |-> TRUE, connected |-> ~s1.log.threw]]

\* the onMessage listener the accept handler puts on an accepted port
acceptedOnMessage(s, a, type, throwers) ==
    LET s1 == handleMessage(s, type, throwers)
    IN IF s1.log.threw THEN s1 ELSE broadcast(s1, a)

\* the onDisconnect listener the accept handler puts on an accepted port
acceptedOnDisconnect(s, a) == [s EXCEPT !.ports[s.accepted[a].name] = NoPort]

\* one listener of chrome.runtime.onConnect, for incoming port a
onConnectListener(s, a) ==
    [s EXCEPT !.ports[s.accepted[a].name] = a, !.accepted[a].k = @ + 1]

\* the host runs each of k listeners of an event, one after the other
RECURSIVE Repeat(_, _, _, _, _, _)
Repeat(what, k, s, a, type, throwers) ==
    IF k = 0 THEN s
    ELSE LET s1 == CASE what = "connect" -> onConnectListener(s, a)
                      [] what = "message" -> acceptedOnMessage(s, a, type, throwers)
                      [] OTHER -> acceptedOnDisconnect(s, a)
         IN Repeat(what, k - 1, [s1 EXCEPT !.log.threw = @ \/ s.log.threw],
                   a, type, throwers)

NoConn == [live |-> FALSE, name |-> "", k |-> 0]

\* ------------------------------------------------------------------ state
Init ==
    /\ instance = FALSE
    /\ context = "content"
    /\ port = NoPort
    /\ ports = [n \in PortNames |-> NoPort]
    /\ messageHandlers = [t \in SubscribeTypes |-> <<>>]
    /\ isSettingUp = FALSE
    /\ isInvalidated = FALSE
    /\ timers = EmptyBag
    /\ openPorts = {}
    /\ onConnect = 0
    /\ accepted = [a \in AcceptedIds |-> NoConn]
    /\ issued = {}
    /\ used = {}
    /\ dropped = {}
    /\ classified = FALSE
    /\ app = [mounted |-> FALSE, connected |-> FALSE]
    /\ ev = [op |-> "init", arg |-> NoArgs, log |-> EmptyLog]

Chains(s) == BagCardinality(s.timers) + Cardinality(s.openPorts)

\* ---------------------------------------------------------------- actions
\* ConnectionManager.getInstance(), the constructor on the first call
GetInstance ==
    /\ instance' = TRUE
    /\ IF instance THEN Commit(Cur, "getInstance", NoArgs)
       ELSE Commit(setupConnections(Cur), "getInstance", [NoArgs EXCEPT !.first = TRUE])

SetContext(c) ==
    /\ instance
    /\ c # context /\ c = "background" => onConnect < MaxListeners
    /\ c # context /\ c # "background" => Chains(Cur) < MaxChains
    /\ UNCHANGED instance
    /\ Commit(setContext(Cur, c), "setContext", [NoArgs EXCEPT !.role = c, !.was = context])

\* time passes
Elapse(t) == [t EXCEPT !.left = Max(@ - TickMs, 0),
                       !.age = Min(@ + TickMs, RECONNECT_DELAY)]

Tick ==
    /\ \E t \in BagToSet(timers) : t.left > 0
    /\ UNCHANGED instance
    /\ Commit([Cur EXCEPT !.timers = BagOfAll(Elapse, timers)], "tick", NoArgs)

\* a timer set by setTimeout(this.connectToBackground, d) expires
TimerFire(t, outcome) ==
    /\ BagIn(t, timers)
    /\ t.left = 0
    /\ context = "background" => outcome = NoError
    /\ UNCHANGED instance
    /\ Commit(connectToBackground([Cur EXCEPT !.timers = @ (-) SetToBag({t})], outcome),
              "timer", [NoArgs EXCEPT !.timer = t, !.error = outcome])

\* a port this process opened disconnects; error is chrome.runtime.lastError
PortDisconnect(p, error) ==
    /\ p \in openPorts
    /\ UNCHANGED instance
    /\ Commit(handleDisconnect([Cur EXCEPT !.openPorts = @ \ {p}], error),
              "disconnect", [NoArgs EXCEPT !.port = p, !.error = error])

\* the handler functions that can raise on a message of this type
Registered(type) == {messageHandlers[type][i].fn : i \in 1..Len(messageHandlers[type])}

\* a message arrives on a port this process opened
PortMessage(p, type, throwers) ==
    /\ p \in openPorts
    /\ throwers \subseteq Registered(type)
    /\ UNCHANGED instance
    /\ Commit(handleMessage(Cur, type, throwers), "message",
              [NoArgs EXCEPT !.type = type, !.throwers = throwers])

\* a message arrives on a port this process opened, and the handler function
\* actor invokes an unsubscribe closure of that message type while it runs
PortMessageUnsubscribing(p, type, actor, cap) ==
    /\ p \in openPorts
    /\ actor \in Registered(type)
    /\ cap \in issued /\ cap.type = type
    /\ UNCHANGED instance
    /\ Commit(forEach(Cur, type, 1, Len(messageHandlers[type]), actor, cap), "dispatch",
              [NoArgs EXCEPT !.type = type, !.fn = actor, !.cap = cap])

\* nanoid(): an id no earlier message has
FreshId == CHOOSE id \in 1..(MaxMsgs + 1) : id \notin dropped

SendMessage ==
    /\ instance
    /\ UNCHANGED instance
    /\ Commit(sendMessage(Cur, FreshId), "send", [NoArgs EXCEPT !.id = FreshId])

Subscribe(messageType, handler) ==
    /\ instance
    /\ Cardinality(issued) < MaxSubs
    /\ UNCHANGED instance
    /\ Commit(subscribe(Cur, messageType, handler), "subscribe",
              [NoArgs EXCEPT !.type = messageType, !.fn = handler])

Unsubscribe(cap) ==
    /\ cap \in issued
    /\ UNCHANGED instance
    /\ Commit([unsubscribe(Cur, cap) EXCEPT !.used = @ \cup {cap}], "unsubscribe",
              [NoArgs EXCEPT !.cap = cap])

\* the side panel mounts its App (once); the handler it subscribes is h1
AppMount ==
    /\ instance
    /\ ~app.mounted
    /\ context # "sidepanel" => Chains(Cur) < MaxChains
    /\ Cardinality(issued) < MaxSubs
    /\ UNCHANGED instance
    /\ Commit(App_useEffect(Cur, FreshId, "h1"), "mount", [NoArgs EXCEPT !.id = FreshId])

\* another context connects: the host runs every onConnect listener
FreeSlot(a) == ~accepted[a].live /\ \A n \in PortNames : ports[n] # a

Accept(a, name) ==
    /\ onConnect > 0
    /\ FreeSlot(a)
    /\ \A b \in 1..(a - 1) : ~FreeSlot(b)
    /\ UNCHANGED instance
    /\ Commit(Repeat("connect", onConnect,
                     [Cur EXCEPT !.accepted[a] = [live |-> TRUE, name |-> name, k |-> 0]],
                     a, "", {}),
              "accept", [NoArgs EXCEPT !.port = a, !.name = name])

\* a message arrives on an accepted port: the host runs its onMessage listeners
AcceptedMessage(a, type, throwers) ==
    /\ accepted[a].live
    /\ throwers \subseteq Registered(type)
    /\ UNCHANGED instance
    /\ Commit(Repeat("message", accepted[a].k, Cur, a, type, throwers),
              "hubMessage", [NoArgs EXCEPT !.port = a, !.type = type, !.throwers = throwers])

\* an accepted port disconnects: the host runs its onDisconnect listeners
AcceptedDisconnect(a) ==
    /\ accepted[a].live
    /\ UNCHANGED instance
    /\ Commit([Repeat("disconnect", accepted[a].k, Cur, a, "", {})
                  EXCEPT !.accepted[a] = NoConn],
              "hubDisconnect", [NoArgs EXCEPT !.port = a])

Next ==
    \/ GetInstance
    \/ \E c \in Contexts : SetContext(c)
    \/ Tick
    \/ \E t \in BagToSet(timers), outcome \in {NoError} \cup ThrownErrors :
          TimerFire(t, outcome)
    \/ \E p \in PortIds, error \in LastErrors : PortDisconnect(p, error)
    \/ \E p \in PortIds, type \in MessageTypes, throwers \in SUBSET HandlerFns :
          PortMessage(p, type, throwers)
    \/ SendMessage
    \/ \E t \in SubscribeTypes, h \in HandlerFns : Subscribe(t, h)
    \/ \E cap \in issued : Unsubscribe(cap)
    \/ \E a \in AcceptedIds, n \in PortNames : Accept(a, n)
    \/ \E a \in AcceptedIds, type \in MessageTypes, throwers \in SUBSET HandlerFns :
          AcceptedMessage(a, type, throwers)
    \/ \E a \in AcceptedIds : AcceptedDisconnect(a)
    \/ AppMount
    \/ \E p \in PortIds, type \in MessageTypes, actor \in HandlerFns, cap \in issued :
          PortMessageUnsubscribing(p, type, actor, cap)

Spec == Init /\ [][Next]_vars

\* The operations of the outbound side: roles, timers, disconnects, sends.
NextClient ==
    \/ GetInstance
    \/ \E c \in Contexts : SetContext(c)
    \/ Tick
    \/ \E t \in BagToSet(timers), outcome \in {NoError} \cup ThrownErrors :
          TimerFire(t, outcome)
    \/ \E p \in PortIds, error \in LastErrors : PortDisconnect(p, error)
    \/ SendMessage

SpecClient == Init /\ [][NextClient]_vars

\* The side panel: the App mounts, its button sends, the host runs timers and
\* disconnects ports.
NextPanel ==
    \/ GetInstance
    \/ AppMount
    \/ Tick
    \/ \E t \in BagToSet(timers), outcome \in {NoError} \cup ThrownErrors :
          TimerFire(t, outcome)
    \/ \E p \in PortIds, error \in LastErrors : PortDisconnect(p, error)
    \/ SendMessage

SpecPanel == Init /\ [][NextPanel]_vars

\* The operations of the subscriber registry on a process that dials out.
NextRegistry ==
    \/ GetInstance
    \/ Tick
    \/ \E t \in BagToSet(timers) : TimerFire(t, NoError)
    \/ \E p \in PortIds, type \in MessageTypes, throwers \in SUBSET HandlerFns :
          PortMessage(p, type, throwers)
    \/ \E t \in SubscribeTypes, h \in HandlerFns : Subscribe(t, h)
    \/ \E cap \in issued : Unsubscribe(cap)
    \/ \E p \in PortIds, type \in MessageTypes, actor \in HandlerFns, cap \in issued :
          PortMessageUnsubscribing(p, type, actor, cap)

SpecRegistry == Init /\ [][NextRegistry]_vars

\* The operations of the accepting side: the default role and the hub role,
\* incoming connections and their messages, one subscriber function on one
\* message type (it may be subscribed several times, and may raise).
NextHub ==
    \/ GetInstance
    \/ \E c \in {"content", "background"} : SetContext(c)
    \/ Subscribe("TEST_MESSAGE", "h1")
    \/ \E a \in AcceptedIds, n \in PortNames : Accept(a, n)
    \/ \E a \in AcceptedIds, type \in MessageTypes, throwers \in SUBSET HandlerFns :
          AcceptedMessage(a, type, throwers)
    \/ \E a \in AcceptedIds : AcceptedDisconnect(a)

SpecHub == Init /\ [][NextHub]_vars

\* ----------------------------------------------------------------- claims
Range(seq) == {seq[i] : i \in 1..Len(seq)}
TableValues == {ports[n] : n \in PortNames} \ {NoPort}
PlainDisconnect ==
    ev.op = "disconnect" /\ context \in ClientContexts
        /\ ~isExtensionContextInvalidated(ev.arg.error)

\* C1: a coordinator in a client role has at most one outbound port that it
\* opened and that has not disconnected.
C1_AtMostOneOpenPort ==
    context \in ClientContexts => Cardinality(openPorts) <= 1

C3_RebroadcastToOthers ==
    (ev.op = "hubMessage" /\ context = "background")
        => /\ \A b \in TableValues \ {ev.arg.port} : ev.log.posted[b] >= 1
           /\ ev.log.posted[ev.arg.port] = 0

\* C4: when a handler of the message's type raises, the handlers subscribed
\* after it are still invoked in that dispatch.
C4_LaterHandlersStillInvoked ==
    ev.op = "message"
        => LET handlers == messageHandlers[ev.arg.type]
           IN \A i, j \in 1..Len(handlers) :
                 (i < j /\ handlers[i].fn \in ev.arg.throwers)
                    => handlers[j] \in Range(ev.log.invoked)

\* C5: a function stays registered on a type once for every subscribe call
\* whose capability has not been invoked, and no more: invoking a capability
\* removes its own registration and no other, however often it is invoked and
\* also when the same function was subscribed twice; and a message of that
\* type (no handler raising) invokes the function that many times.
C5_UnsubscribeRemovesOwnRegistration ==
    \A t \in SubscribeTypes, f \in HandlerFns :
       LET live == {cap \in issued \ used : cap.type = t /\ cap.fn = f}
           registered == {i \in 1..Len(messageHandlers[t]) : messageHandlers[t][i].fn = f}
           invoked == {i \in 1..Len(ev.log.invoked) : ev.log.invoked[i].fn = f}
       IN /\ Cardinality(registered) = Cardinality(live)
          /\ (ev.op = "message" /\ ev.arg.type = t /\ ev.arg.throwers = {})
                => Cardinality(invoked) = Cardinality(live)

\* C6: a handler subscribed under "*" is invoked for every inbound message,
\* besides the handlers of the message's own type (no handler raising).
C6_WildcardInvoked ==
    (ev.op = "message" /\ ev.arg.throwers = {})
        => Range(ev.log.invoked) =
              Range(messageHandlers[ev.arg.type]) \cup Range(messageHandlers[Wildcard])

\* C7: an ordinary disconnect on a client schedules exactly one reconnect;
\* a reconnect timer fires only once RECONNECT_DELAY has elapsed; and the
\* operation that follows such a disconnect, before any time has passed, is
\* not a connection attempt.
C7_OneReconnectAfterBackoff ==
    [][/\ PlainDisconnect' => ev'.log.scheduled = <<"reconnect">>
       /\ (ev'.op = "timer" /\ ev'.arg.timer.kind = "reconnect")
            => ev'.arg.timer.age >= RECONNECT_DELAY
       /\ (PlainDisconnect /\ ev.log.scheduled = <<"reconnect">>) => ev'.op # "timer"
      ]_vars

\* C8: setContext with the role the coordinator already has changes nothing:
\* no field, no timer, no accept handler, no port.
C8_SameRoleIsNoOp ==
    [][(ev'.op = "setContext" /\ ev'.arg.role = context)
         => (UNCHANGED <<coordinatorVars, hostVars>> /\ ev'.log = EmptyLog)]_vars

\* setContext was called with the current role while the invalidated flag
\* was set and setup was marked in progress
C8_Witness ==
    /\ ev.op = "setContext" /\ ev.arg.role = ev.arg.was /\ context = ev.arg.role
    /\ isInvalidated /\ isSettingUp

\* C9: sendMessage completes without an error reaching the caller and
\* without changing the coordinator's fields, also when the write raises.
C9_SendNeverThrows ==
    [][ev'.op = "send" => (~ev'.log.threw /\ UNCHANGED coordinatorVars)]_vars

\* sendMessage wrote to a port that had already disconnected, and caught
\* the error
C9_Witness ==
    /\ ev.op = "send" /\ ev.log.caught > 0
    /\ context \in ClientContexts /\ port # NoPort /\ port \notin openPorts

\* C10: a message given to sendMessage on a client while this.port is
\* undefined is never written to a port: not by that call, not by any later
\* operation.
C10_DroppedNeverWritten ==
    /\ ev.log.wroteIds \cap dropped = {}
    /\ (ev.log.wroteIds # {} \/ ev.log.wrote # {}) => ev.op = "send"

\* after an earlier message was dropped the coordinator has connected, and
\* a later message is written to the new port
C10_Witness ==
    /\ dropped # {}
    /\ ev.op = "send" /\ ev.log.wrote = {port} /\ port \in openPorts
    /\ ev.log.wroteIds # {}

\* C11: an operation that runs in, or switches to, the background role opens
\* no outbound port and sets no timer, also when a timer or a port of an
\* earlier client role is still pending.
C11_HubNeverDials ==
    [][context' = "background"
         => (ev'.log.opened = NoPort /\ ev'.log.scheduled = <<>>)]_vars

\* in the background role, with a port of the earlier client role still open,
\* the initial timer of another setup of that role fires
C11_Witness ==
    /\ context = "background"
    /\ ev.op = "timer" /\ ev.arg.timer.kind = "initial"
    /\ openPorts # {}

\* C12: a message a client sends to the hub (no subscriber raising) is posted
\* to every other client whose accepted connection is live, and not to the
\* sender, also when two connections carry the same name.
C12_EveryOtherClientReceives ==
    (ev.op = "hubMessage" /\ context = "background" /\ ev.arg.throwers = {})
        => /\ \A b \in AcceptedIds \ {ev.arg.port} :
                 accepted[b].live => ev.log.posted[b] >= 1
           /\ ev.log.posted[ev.arg.port] = 0

\* C13: a message arriving at the hub on an accepted connection (no subscriber
\* raising) invokes every subscriber of its type exactly once and is posted
\* exactly once to every other live connection of the table, whatever
\* setContext calls led to the background role.
C13_HubHandlesEachMessageOnce ==
    (ev.op = "hubMessage" /\ context = "background" /\ ev.arg.throwers = {})
        => /\ \A r \in Range(messageHandlers[ev.arg.type]) :
                 Cardinality({i \in 1..Len(ev.log.invoked) : ev.log.invoked[i] = r}) = 1
           /\ \A b \in TableValues \ {ev.arg.port} :
                 accepted[b].live => ev.log.posted[b] = 1

\* C14: while the invalidated flag is set, a timer that fires runs no
\* connection attempt (no port opened, no connect error caught) and
\* sendMessage writes to no port.
C14_NoTransportWhileInvalidated ==
    [][isInvalidated
         => /\ ev'.op = "timer" => (ev'.log.opened = NoPort /\ ev'.log.caught = 0)
            /\ ev'.op = "send" => ev'.log.wrote = {}]_vars

\* C15: once the invalidated flag is set, an operation leaves it set, sets no
\* timer (reconnect-scheduled) and runs no connection attempt (connecting).
\* Stated here for every operation except setContext with a different role,
\* which the claim names too.
C15_InvalidatedIsTerminal ==
    [][(isInvalidated /\ ~(ev'.op = "setContext" /\ ev'.arg.role # context))
         => /\ isInvalidated'
            /\ ev'.log.scheduled = <<>>
            /\ ev'.log.opened = NoPort
            /\ ev'.op = "timer" => ev'.log.caught = 0]_vars

\* C16: in the mounted side panel, after a connection attempt has failed
\* (its reconnect is pending) and while no port is open, the App's connected
\* state is false.
C16_StatusDisconnectedAfterFailedAttempt ==
    (app.mounted /\ ev.op = "timer" /\ ev.log.caught > 0
        /\ ev.log.scheduled = <<"reconnect">> /\ openPorts = {})
        => ~app.connected

\* C17: a connection attempt whose chrome.runtime.connect throws is handled as
\* handleDisconnect handles that error: an invalidation error sets the
\* invalidated flag and schedules nothing; another error, on a coordinator
\* that is not invalidated, schedules exactly one reconnect.
C17_FailedConnectHandledAsDisconnect ==
    [][(ev'.op = "timer" /\ ev'.log.caught > 0)
         => IF isExtensionContextInvalidated(ev'.arg.error)
            THEN isInvalidated' /\ ev'.log.scheduled = <<>>
            ELSE ~isInvalidated => ev'.log.scheduled = <<"reconnect">>]_vars

\* C18: when a subscriber of the hub raises on a message that arrived on an
\* accepted connection, the message is still posted to every other live
\* connection of the table, and nothing is posted to the sender.
C18_RaisingSubscriberDoesNotStopRebroadcast ==
    (ev.op = "hubMessage" /\ context = "background" /\ ev.arg.throwers # {})
        => /\ \A b \in TableValues \ {ev.arg.port} :
                 accepted[b].live => ev.log.posted[b] >= 1
           /\ ev.log.posted[ev.arg.port] = 0

\* C19: when a handler invokes an unsubscribe closure of the message's type
\* during the dispatch of a message, every function is invoked at least as
\* often as it is still registered afterwards (none skipped) and at most as
\* often as it was registered before (none invoked twice).
C19_UnsubscribeDuringDispatch ==
    [][ev'.op = "dispatch"
         => \A f \in HandlerFns :
               LET before == messageHandlers[ev'.arg.type]
                   after == messageHandlers'[ev'.arg.type]
                   invoked == ev'.log.invoked
                   Count(seq) == Cardinality({i \in 1..Len(seq) : seq[i].fn = f})
               IN Count(after) <= Count(invoked) /\ Count(invoked) <= Count(before)]_vars

\* C20: in the hub, every connection in the table is accepted and live; an
\* accept puts the accepted connection in the table under its name; and a
\* disconnect leaves every other connection in the table.
C20_TableHoldsLiveConnections ==
    [][context' = "background"
         => /\ \A n \in PortNames : ports'[n] # NoPort => accepted'[ports'[n]].live
            /\ ev'.op = "accept" => ports'[ev'.arg.name] = ev'.arg.port
            /\ ev'.op = "hubDisconnect"
                  => \A n \in PortNames :
                        (ports[n] # NoPort /\ ports[n] # ev'.arg.port) => ports'[n] = ports[n]]_vars


\* C21: on a coordinator in a client role at most one connection attempt is
\* pending: the timers set for connectToBackground (initial delay or
\* reconnect delay) that have not fired yet number at most one, whatever
\* client roles setContext has been given.
C21_AtMostOnePendingAttempt ==
    (instance /\ context \in ClientContexts) => BagCardinality(timers) <= 1


\* A coordinator that stays in client roles, with the host's timers: time
\* passes while a timer is pending, and a timer that has expired runs its
\* callback. chrome.runtime.connect returns a port or raises; a port
\* disconnects with lastError unset or with the invalidation error.
ConnectOutcomes == {NoError, OtherError}
DisconnectErrors == {NoError, InvalidatedError}

NextRecovery ==
    \/ GetInstance
    \/ \E c \in ClientContexts : SetContext(c)
    \/ Tick
    \/ \E t \in BagToSet(timers), outcome \in ConnectOutcomes : TimerFire(t, outcome)
    \/ \E p \in PortIds, error \in DisconnectErrors : PortDisconnect(p, error)
    \/ SendMessage

\* the timers setTimeout(this.connectToBackground, d) leaves once d has passed
ExpiredTimers ==
    {[kind |-> k, left |-> 0, age |-> a] :
        k \in {"initial", "reconnect"}, a \in {0, TickMs, RECONNECT_DELAY}}

\* time passes, and the host runs the callback of every expired timer
TimerFairness ==
    /\ WF_vars(Tick)
    /\ \A t \in ExpiredTimers :
          WF_vars(\E outcome \in ConnectOutcomes : TimerFire(t, outcome))

SpecRecovery == Init /\ [][NextRecovery]_vars /\ TimerFairness

\* the last operation was a disconnect without an invalidation error that
\* left the coordinator without a connection
ConnectionLost == PlainDisconnect /\ port = NoPort

\* no invalidation: the coordinator is not invalidated, and the last
\* operation did not meet an invalidation error
NoInvalidation ==
    /\ ~isInvalidated
    /\ ev.op \in {"disconnect", "timer"} => ~isExtensionContextInvalidated(ev.arg.error)

\* the hub accepts: the last connection attempt, if the last operation was
\* one, did not raise
HubAccepts == ev.op = "timer" => ev.arg.error = NoError

\* this.port is a port that has not disconnected
ActiveConnection == port # NoPort /\ port \in openPorts

\* C22: with fair timers, whenever a client coordinator has lost its
\* connection to a non-invalidating disconnect, and from then on no
\* invalidation occurs and from some point on every connection attempt is
\* accepted, this.port is eventually a live port again; and a send issued
\* while this.port is live is written to that port.
C22_ReconnectsAndSends ==
    /\ []((ConnectionLost /\ []NoInvalidation /\ <>[]HubAccepts) => <>ActiveConnection)
    /\ [][(ActiveConnection /\ ev'.op = "send")
            => (ev'.log.wrote = {port} /\ ev'.log.wroteIds = {ev'.arg.id}
                /\ ev'.log.caught = 0 /\ dropped' = dropped)]_vars

\* a port was opened, was lost to a disconnect that was not an invalidation
\* (its number is free again, and no invalidation was ever seen), and the
\* reconnect timer, after its full delay, has opened it again as this.port
C22_Witness ==
    /\ ev.op = "timer" /\ ev.arg.timer.kind = "reconnect"
    /\ ev.arg.timer.age = RECONNECT_DELAY /\ ev.arg.error = NoError
    /\ ev.log.opened = port /\ ActiveConnection
    /\ port = 1 /\ openPorts = {1, 2}
    /\ ~isInvalidated /\ ~classified

====
